---- MODULE Spec2Model ----
(***************************************************************************)
(* State-machine model of the siteBack quest API (src/src/db.js): the      *)
(* document store (users, sessions, attempts, the sessionId counter), the  *)
(* seeding step run at process start, the token middleware and the HTTP    *)
(* handlers.  A handler that awaits the store more than once is split at   *)
(* its await points, so that other requests interleave between its store   *)
(* operations; the continuation of a suspended handler is kept in the bag  *)
(* `inflight`.  `last` describes the handler step taken most recently (the *)
(* response it sent, or the store operation it completed).                 *)
(***************************************************************************)
EXTENDS Bags, FiniteSets, Integers, Sequences, TLC

VARIABLES
    secretSet,   \* process.env.JWT_SECRET is configured
    listening,   \* app.listen has been called (seeding finished)
    users,       \* quest_users, in insertion order
    sessions,    \* quest_sessions, in insertion order
    attempts,    \* quest_attempts, in insertion order
    counters,    \* quest_counters: <<>> (no 'sessionId' document) or <<seq>>
    issued,      \* payloads of the tokens signToken has returned
    inflight,    \* bag of continuations of handlers suspended at an await
    last,        \* the handler step taken most recently
    allocated,   \* history: the values getNextSessionId returned, in order
    createdLog,  \* history: the ids of the sessions inserted, in order
    submits      \* number of attempts accepted so far

vars == <<secretSet, listening, users, sessions, attempts, counters, issued,
          inflight, last, allocated, createdLog, submits>>

store == <<users, sessions, attempts, counters>>

--------------------------------------------------------------------------
(* Bounds of the model *)

MaxInflight == 2    \* handlers suspended at an await at the same time
MaxSeq == 4         \* highest value the sessionId counter takes
MaxUsers == 7       \* documents in quest_users
MaxSubmits == 1     \* accepted submit-attempt requests
Scale == 2          \* a JS number x of a request body is kept as x * Scale
MaxLbAttempts == 3  \* attempts stored when the leaderboard is queried

--------------------------------------------------------------------------
(* JavaScript values of requests *)

N(x) == x * Scale

\* Number(v) for a JSON body value or a path parameter: [nan, v]
NumberOf(j) ==
    CASE j.t = "num"    -> [nan |-> FALSE, v |-> j.v]
      [] j.t = "strnum" -> [nan |-> FALSE, v |-> j.v]
      [] j.t = "strbad" -> [nan |-> TRUE, v |-> 0]
      [] j.t = "undef"  -> [nan |-> TRUE, v |-> 0]
      [] j.t = "null"   -> [nan |-> FALSE, v |-> 0]
      [] j.t = "true"   -> [nan |-> FALSE, v |-> N(1)]
      [] OTHER          -> [nan |-> TRUE, v |-> 0]

IsFinite(n) == ~n.nan

\* a password is a sequence of characters; " " is white space
RECURSIVE TrimLeft(_)
TrimLeft(s) ==
    IF s # <<>> /\ Head(s) = " " THEN TrimLeft(Tail(s)) ELSE s

RECURSIVE TrimRight(_)
TrimRight(s) ==
    IF s # <<>> /\ s[Len(s)] = " " THEN TrimRight(SubSeq(s, 1, Len(s) - 1)) ELSE s

Trim(s) == TrimRight(TrimLeft(s))

\* the HMAC is modelled as the pair (key, message): equal exactly when both are
hmacKeyHash(password) ==
    <<IF secretSet THEN "env" ELSE "change-me", Trim(password)>>

--------------------------------------------------------------------------
(* Store queries *)

\* findOne: the first matching document in natural order, <<>> when none
FindUserByName(us, name) == SelectSeq(us, LAMBDA u : u.userName = name)

FindUserByKey(us, admin, key) ==
    SelectSeq(us, LAMBDA u : u.isAdmin = admin /\ u.keyHash = key)

UserDoc(name, admin, password) ==
    [userName |-> name, isAdmin |-> admin, keyHash |-> hmacKeyHash(password)]

SessionDoc(id, at) == [id |-> id, startAt |-> at]

AttemptDoc(sid, name, rate) == [sessionId |-> sid, userName |-> name, rate |-> rate]

--------------------------------------------------------------------------
(* Sequence allocator *)

\* findOneAndUpdate({_id:'sessionId'}, {$inc:{seq:1}}, {upsert, returnDocument:'before'})
FindOneAndUpdateBefore(cs) ==
    [stored |-> IF cs = <<>> THEN <<1>> ELSE <<cs[1] + 1>>, doc |-> cs]

\* findOneAndUpdate({_id:'sessionId'}, {$inc:{seq:1}}, {upsert, returnDocument:'after'}):
\* one atomic store operation; `stored` is the counter document afterwards,
\* `doc` the document handed back to the caller
FindOneAndUpdate(cs) ==
    LET after == IF cs = <<>> THEN <<1>> ELSE <<cs[1] + 1>>
    IN  [stored |-> after, doc |-> after]

\* a driver that hands back { value: document }: doc.seq is undefined
SeqOfWrapped(doc) == 1

\* doc?.seq != null ? doc.seq : 1
SeqOf(doc) == IF doc # <<>> THEN doc[1] ELSE 1

getNextSessionId(cs) ==
    LET r == FindOneAndUpdate(cs)
    IN  [counters |-> r.stored, id |-> SeqOf(r.doc)]

CounterValue(cs) == IF cs = <<>> THEN 0 ELSE cs[1]

--------------------------------------------------------------------------
(* Seeding *)

seedPlayers ==
    << [userName |-> "Artur_1", password |-> <<"artur">>],
       [userName |-> "Antuan", password |-> <<"a">>],
       [userName |-> "Maria", password |-> <<"m">>],
       [userName |-> "Ivan", password |-> <<"i">>] >>

SeedAdmin(us) ==
    IF SelectSeq(us, LAMBDA u : u.isAdmin /\ u.userName = "admin") = <<>>
    THEN Append(us, UserDoc("admin", TRUE, <<"admin">>))
    ELSE us

RECURSIVE SeedPlayers(_, _)
SeedPlayers(us, i) ==
    IF i > Len(seedPlayers) THEN us
    ELSE LET p == seedPlayers[i]
         IN  SeedPlayers(IF FindUserByName(us, p.userName) = <<>>
                         THEN Append(us, UserDoc(p.userName, FALSE, p.password))
                         ELSE us,
                         i + 1)

seedAttempts(id1) ==
    << AttemptDoc(id1, "Antuan", N(98)),
       AttemptDoc(id1, "Maria", N(81)),
       AttemptDoc(id1, "Ivan", N(69)),
       AttemptDoc(id1, "Artur_1", N(78)) >>

\* sessions and attempts are seeded on every start
SeedSessionsAlways(ss) == TRUE

\* sessionsCount === 0
SeedSessionsNeeded(ss) == Len(ss) = 0

\* the store after ensureSeedData, and the ids it allocated
ensureSeedData(us, ss, as, cs) ==
    LET us2 == SeedPlayers(SeedAdmin(us), 1)
        a1 == getNextSessionId(cs)
        a2 == getNextSessionId(a1.counters)
    IN  IF SeedSessionsNeeded(ss)
        THEN [users |-> us2,
              sessions |-> ss \o <<SessionDoc(a1.id, 1), SessionDoc(a2.id, 2)>>,
              attempts |-> as \o seedAttempts(a1.id),
              counters |-> a2.counters,
              ids |-> <<a1.id, a2.id>>]
        ELSE [users |-> us2, sessions |-> ss, attempts |-> as, counters |-> cs,
              ids |-> <<>>]

--------------------------------------------------------------------------
(* Tokens *)

NoToken == [kind |-> "none", sub |-> "", role |-> ""]
Malformed == [kind |-> "malformed", sub |-> "", role |-> ""]
BadSignature == [kind |-> "bad", sub |-> "", role |-> ""]
Signed(payload) == [kind |-> "signed", sub |-> payload.sub, role |-> payload.role]

\* signToken throws when JWT_SECRET is not set
signTokenThrows == ~secretSet

\* header.match(/^Bearer\s+(.+)$/i)
HasBearer(tok) == tok.kind \notin {"none", "malformed"}

\* jwt.verify(token, process.env.JWT_SECRET) returns (does not throw)
Verifies(tok) ==
    secretSet /\ tok.kind = "signed" /\ [sub |-> tok.sub, role |-> tok.role] \in issued

\* the role check is skipped
RoleMismatchNever(requiredRole, tok) == FALSE

\* requiredRole && payload.role !== requiredRole
RoleMismatch(requiredRole, tok) == requiredRole # "" /\ tok.role # requiredRole

\* the status authMiddleware answers, 0 when it calls next()
authMiddleware(requiredRole, tok) ==
    IF ~HasBearer(tok) THEN 401
    ELSE IF ~Verifies(tok) THEN 401
    ELSE IF RoleMismatch(requiredRole, tok) THEN 403
    ELSE 0

--------------------------------------------------------------------------
(* Leaderboard aggregation *)

\* the binary order of the user names the model uses
NameOrder == <<"Antuan", "Artur_1", "Ivan", "Maria", "admin", "bob">>

NameRank(name) == CHOOSE i \in 1..Len(NameOrder) : NameOrder[i] = name

SetMax(S) == CHOOSE x \in S : \A y \in S : y <= x

\* { $match: { sessionId: id } }
MatchSession(as, id) == SelectSeq(as, LAMBDA a : a.sessionId = id)

\* { $group: { _id: '$userName', rate: { $last: '$rate' } } }: the latest
\* attempt instead of the best one
GroupLast(as) ==
    { [_id |-> u,
       rate |-> as[SetMax({ j \in 1..Len(as) : as[j].userName = u })].rate]
      : u \in { as[i].userName : i \in 1..Len(as) } }

\* { $group: { _id: '$userName', rate: { $max: '$rate' } } }
GroupMax(as) ==
    { [_id |-> u,
       rate |-> SetMax({ as[i].rate : i \in { j \in 1..Len(as) : as[j].userName = u } })]
      : u \in { as[i].userName : i \in 1..Len(as) } }

\* { $sort: { rate: -1, _id: 1 } }: d is placed before e
SortsBefore(d, e) ==
    \/ d.rate > e.rate
    \/ d.rate = e.rate /\ NameRank(d._id) < NameRank(e._id)

RECURSIVE SortDocs(_)
SortDocs(S) ==
    IF S = {} THEN <<>>
    ELSE LET top == CHOOSE d \in S : \A e \in S \ {d} : SortsBefore(d, e)
         IN  <<top>> \o SortDocs(S \ {top})

\* docs.map((d, idx) => ({ rank: idx + 1, userName: d._id, rate: d.rate }))
Leaderboard(as, id) ==
    LET docs == SortDocs(GroupMax(MatchSession(as, id)))
    IN  [i \in 1..Len(docs) |->
            [rank |-> i, userName |-> docs[i]._id, rate |-> docs[i].rate]]

\* find({ sessionId: id, userName }); the order of the result is not modelled
FindAttempts(as, id, name) ==
    SelectSeq(as, LAMBDA a : a.sessionId = id /\ a.userName = name)

--------------------------------------------------------------------------
(* Inputs of the requests *)

Num(x) == [t |-> "num", v |-> x]
StrNum(x) == [t |-> "strnum", v |-> x]
StrBad == [t |-> "strbad", v |-> 0]
Undef == [t |-> "undef", v |-> 0]

Passwords == { <<>>, <<"admin">>, <<" ", "a">>, <<"x">> }
RegisterNames == { "", "bob", "Antuan" }
RegisterPasswords == { <<>>, <<"x">> }
QueryNames == { "", "Antuan", "bob" }
IdParams == { StrNum(1), StrNum(3), StrBad }
RateInputs ==
    { Num(0), Num(N(1)), Num(N(1) + 1), StrNum(N(100)), Num(N(101)), StrBad }
RoleIds == { StrNum(1), StrBad }
RoleRates == { Num(0), Num(N(1)) }
DateInputs == { Undef, StrBad, StrNum(5) }
Tokens == { NoToken, Malformed, BadSignature } \cup { Signed(p) : p \in issued }

\* Date.parse(`${startDate}T${startTime}:00Z`)
DateParse(j) == NumberOf(j)

--------------------------------------------------------------------------
(* The record of the latest handler step *)

Step(op, status, tok, id, name, body) ==
    [op |-> op, status |-> status, tok |-> tok, id |-> id, name |-> name,
     body |-> body, idp |-> Undef, arg |-> Undef, had |-> FALSE, mark |-> 0]

Cont(op, tok, id, name, pw) ==
    [op |-> op, tok |-> tok, id |-> id, name |-> name, pw |-> pw,
     had |-> FALSE, mark |-> 0]

Pending(op) == { c \in BagToSet(inflight) : c.op = op }

CanSuspend == BagCardinality(inflight) < MaxInflight

Suspend(c) == inflight' = inflight (+) SetToBag({c})

Resume(c) == inflight' = inflight (-) SetToBag({c})

--------------------------------------------------------------------------
(* Initial state: an empty database, the process not started *)

Init ==
    /\ secretSet \in BOOLEAN
    /\ listening = FALSE
    /\ users = <<>>
    /\ sessions = <<>>
    /\ attempts = <<>>
    /\ counters = <<>>
    /\ issued = {}
    /\ inflight = EmptyBag
    /\ last = Step("init", 0, NoToken, 0, "", <<>>)
    /\ allocated = <<>>
    /\ createdLog = <<>>
    /\ submits = 0

\* Process start: ensureSeedData runs to its end before app.listen, so no
\* request of this process interleaves with it; the handlers a previous
\* process had suspended are gone.
Startup ==
    LET r == ensureSeedData(users, sessions, attempts, counters)
    IN  /\ CounterValue(r.counters) <= MaxSeq
        /\ Len(r.users) <= MaxUsers
        /\ users' = r.users
        /\ sessions' = r.sessions
        /\ attempts' = r.attempts
        /\ counters' = r.counters
        /\ allocated' = allocated \o r.ids
        /\ createdLog' = createdLog \o r.ids
        /\ listening' = TRUE
        /\ inflight' = EmptyBag
        /\ last' = [Step("seed", 0, NoToken, 0, "", <<>>) EXCEPT !.had = (last.op = "seed")]
        /\ UNCHANGED <<secretSet, issued, submits>>

--------------------------------------------------------------------------
(* Auth handlers *)

\* the two password-only logins: findOne by key hash, then signToken
Login(op, admin, role, pw) ==
    LET found == FindUserByKey(users, admin, hmacKeyHash(pw))
        status == IF pw = <<>> THEN 400
                  ELSE IF found = <<>> THEN 401
                  ELSE IF signTokenThrows THEN 500
                  ELSE 200
        name == IF found = <<>> \/ pw = <<>> THEN "" ELSE found[1].userName
    IN  /\ listening
        /\ issued' = IF status = 200 THEN issued \cup {[sub |-> name, role |-> role]}
                     ELSE issued
        /\ last' = [Step(op, status, NoToken, 0, name, <<>>) EXCEPT !.had = (found # <<>>)]
        /\ UNCHANGED <<secretSet, listening, users, sessions, attempts, counters,
                       inflight, allocated, createdLog, submits>>

PlayerLoginOld(pw) == Login("loginOld", FALSE, "player", pw)

AdminLogin(pw) == Login("adminLogin", TRUE, "admin", pw)

\* existing = await coll.findOne({ userName })
UserNameTaken(us, name) == FindUserByName(us, name) # <<>>

\* player-register up to its second await: the field check and findOne
PlayerRegisterFind(name, pw) ==
    LET status == IF name = "" \/ pw = <<>> THEN 400
                  ELSE IF UserNameTaken(users, name) THEN 409
                  ELSE 0
    IN  /\ listening
        /\ IF status = 0
           THEN /\ CanSuspend
                /\ Len(users) + Cardinality(Pending("register")) < MaxUsers
                /\ Suspend(Cont("register", NoToken, 0, name, pw))
           ELSE UNCHANGED inflight
        /\ last' = [Step("registerFind", status, NoToken, 0, name, <<>>)
                    EXCEPT !.had = UserNameTaken(users, name)]
        /\ UNCHANGED <<secretSet, listening, users, sessions, attempts, counters,
                       issued, allocated, createdLog, submits>>

\* player-register from insertOne on: the insert, then signToken
PlayerRegisterInsert(c) ==
    /\ c \in Pending("register")
    /\ Resume(c)
    /\ users' = Append(users, UserDoc(c.name, FALSE, c.pw))
    /\ issued' = IF signTokenThrows THEN issued
                 ELSE issued \cup {[sub |-> c.name, role |-> "player"]}
    /\ last' = Step("register", IF signTokenThrows THEN 500 ELSE 201, NoToken, 0,
                    c.name, <<>>)
    /\ UNCHANGED <<secretSet, listening, sessions, attempts, counters, allocated,
                   createdLog, submits>>

--------------------------------------------------------------------------
(* Session handlers *)

\* POST /api/sessions up to the insert: the middleware, the date check and
\* getNextSessionId
CreateSessionAlloc(tok, date) ==
    LET auth == authMiddleware("admin", tok)
        ts == DateParse(date)
        status == IF auth # 0 THEN auth
                  ELSE IF date.t = "undef" \/ ts.nan THEN 400
                  ELSE 0
        a == getNextSessionId(counters)
    IN  /\ listening
        /\ IF status = 0
           THEN /\ CanSuspend
                /\ CounterValue(a.counters) <= MaxSeq
                /\ counters' = a.counters
                /\ allocated' = Append(allocated, a.id)
                /\ Suspend([Cont("create", tok, a.id, "", <<>>) EXCEPT !.mark = ts.v])
           ELSE UNCHANGED <<counters, allocated, inflight>>
        /\ last' = [Step("createAlloc", status, tok, IF status = 0 THEN a.id ELSE 0, "", <<>>)
                    EXCEPT !.arg = date]
        /\ UNCHANGED <<secretSet, listening, users, sessions, attempts, issued,
                       createdLog, submits>>

\* POST /api/sessions from insertOne on
CreateSessionInsert(c) ==
    /\ c \in Pending("create")
    /\ Resume(c)
    /\ sessions' = Append(sessions, SessionDoc(c.id, c.mark))
    /\ createdLog' = Append(createdLog, c.id)
    /\ last' = Step("create", 201, c.tok, c.id, "", <<>>)
    /\ UNCHANGED <<secretSet, listening, users, attempts, counters, issued,
                   allocated, submits>>

\* deleteOne: the first document the filter matches is removed
RECURSIVE RemoveFirst(_, _)
RemoveFirst(ss, id) ==
    IF ss = <<>> THEN <<>>
    ELSE IF Head(ss).id = id THEN Tail(ss)
    ELSE <<Head(ss)>> \o RemoveFirst(Tail(ss), id)

\* the cascade is missing: no attempt is deleted
DeleteManyNothing(as, id) == as

\* deleteMany({ sessionId: id })
DeleteMany(as, id) == SelectSeq(as, LAMBDA a : a.sessionId # id)

\* DELETE /api/sessions/:id up to the second delete: the middleware, the id
\* check and deleteOne
DeleteSessionOne(tok, idp) ==
    LET auth == authMiddleware("admin", tok)
        id == NumberOf(idp)
        status == IF auth # 0 THEN auth
                  ELSE IF ~IsFinite(id) THEN 400
                  ELSE 0
    IN  /\ listening
        /\ IF status = 0
           THEN /\ CanSuspend
                /\ sessions' = RemoveFirst(sessions, id.v)
                /\ Suspend([Cont("delete", tok, id.v, "", <<>>) EXCEPT
                               !.had = (\E i \in 1..Len(sessions) : sessions[i].id = id.v),
                               !.mark = Len(createdLog)])
           ELSE UNCHANGED <<sessions, inflight>>
        /\ last' = [Step("deleteOne", status, tok, id.v, "", <<>>) EXCEPT !.idp = idp]
        /\ UNCHANGED <<secretSet, listening, users, attempts, counters, issued,
                       allocated, createdLog, submits>>

\* DELETE /api/sessions/:id from deleteMany on; `body` holds the attempts removed
DeleteSessionMany(c) ==
    /\ c \in Pending("delete")
    /\ Resume(c)
    /\ attempts' = DeleteMany(attempts, c.id)
    /\ last' = [Step("delete", 204, c.tok, c.id, "",
                     SelectSeq(attempts, LAMBDA a : a \notin
                         { attempts'[i] : i \in 1..Len(attempts') }))
                EXCEPT !.had = c.had, !.mark = c.mark]
    /\ UNCHANGED <<secretSet, listening, users, sessions, counters, issued,
                   allocated, createdLog, submits>>

--------------------------------------------------------------------------
(* Leaderboard and attempts handlers *)

GetLeaderboard(tok, idp) ==
    LET auth == authMiddleware("", tok)
        id == NumberOf(idp)
        status == IF auth # 0 THEN auth
                  ELSE IF ~IsFinite(id) THEN 400
                  ELSE 200
    IN  /\ listening
        /\ last' = [Step("leaderboard", status, tok, id.v, "",
                          IF status = 200 THEN Leaderboard(attempts, id.v) ELSE <<>>)
                    EXCEPT !.idp = idp]
        /\ UNCHANGED <<secretSet, listening, users, sessions, attempts, counters,
                       issued, inflight, allocated, createdLog, submits>>

\* any caller may read any user's attempts
OtherUserNever(tok, name) == FALSE

\* authUser.role !== 'admin' && authUser.userName !== userName
OtherUser(tok, name) == tok.role # "admin" /\ tok.sub # name

GetAttempts(tok, idp, name) ==
    LET auth == authMiddleware("", tok)
        id == NumberOf(idp)
        status == IF auth # 0 THEN auth
                  ELSE IF ~IsFinite(id) THEN 400
                  ELSE IF name = "" THEN 400
                  ELSE IF OtherUser(tok, name) THEN 403
                  ELSE 200
    IN  /\ listening
        /\ last' = [Step("attempts", status, tok, id.v, name,
                          IF status = 200 THEN FindAttempts(attempts, id.v, name) ELSE <<>>)
                    EXCEPT !.idp = idp]
        /\ UNCHANGED <<secretSet, listening, users, sessions, attempts, counters,
                       issued, inflight, allocated, createdLog, submits>>

\* !Number.isFinite(r) || r < 1 || r > 100
RateRejected(r) == ~IsFinite(r) \/ r.v < N(1) \/ r.v > N(100)

SubmitAttempt(tok, idp, rate) ==
    LET auth == authMiddleware("player", tok)
        id == NumberOf(idp)
        r == NumberOf(rate)
        status == IF auth # 0 THEN auth
                  ELSE IF ~IsFinite(id) THEN 400
                  ELSE IF RateRejected(r) THEN 400
                  ELSE 201
    IN  /\ listening
        /\ IF status = 201
           THEN /\ submits < MaxSubmits
                /\ attempts' = Append(attempts, AttemptDoc(id.v, tok.sub, r.v))
                /\ submits' = submits + 1
           ELSE UNCHANGED <<attempts, submits>>
        /\ last' = [Step("submit", status, tok, id.v, "", <<>>)
                    EXCEPT !.idp = idp, !.arg = rate]
        /\ UNCHANGED <<secretSet, listening, users, sessions, counters, issued,
                       inflight, allocated, createdLog>>

--------------------------------------------------------------------------

Next ==
    \/ Startup
    \/ \E pw \in Passwords : PlayerLoginOld(pw)
    \/ \E pw \in Passwords : AdminLogin(pw)
    \/ \E name \in RegisterNames, pw \in RegisterPasswords : PlayerRegisterFind(name, pw)
    \/ \E c \in BagToSet(inflight) : PlayerRegisterInsert(c)
    \/ \E tok \in Tokens, date \in DateInputs : CreateSessionAlloc(tok, date)
    \/ \E c \in BagToSet(inflight) : CreateSessionInsert(c)
    \/ \E tok \in Tokens, idp \in IdParams : DeleteSessionOne(tok, idp)
    \/ \E c \in BagToSet(inflight) : DeleteSessionMany(c)
    \/ \E tok \in Tokens, idp \in IdParams : GetLeaderboard(tok, idp)
    \/ \E tok \in Tokens, idp \in IdParams, name \in QueryNames : GetAttempts(tok, idp, name)
    \/ \E tok \in Tokens, idp \in IdParams, rate \in RateInputs : SubmitAttempt(tok, idp, rate)

Spec == Init /\ [][Next]_vars

--------------------------------------------------------------------------
(* Specifications over the operations a property depends on.  An operation *)
(* left out of one of them writes none of the collections that the         *)
(* properties checked under it read.                                       *)

\* seeding, session creation and deletion
NextSessions ==
    \/ Startup
    \/ \E pw \in Passwords : AdminLogin(pw)
    \/ \E tok \in Tokens, date \in DateInputs : CreateSessionAlloc(tok, date)
    \/ \E c \in BagToSet(inflight) : CreateSessionInsert(c)
    \/ \E tok \in Tokens, idp \in IdParams : DeleteSessionOne(tok, idp)
    \/ \E c \in BagToSet(inflight) : DeleteSessionMany(c)

SpecSessions == Init /\ [][NextSessions]_vars

\* seeding, logins and registration
NextUsers ==
    \/ Startup
    \/ \E pw \in Passwords : PlayerLoginOld(pw)
    \/ \E pw \in Passwords : AdminLogin(pw)
    \/ \E name \in RegisterNames, pw \in RegisterPasswords : PlayerRegisterFind(name, pw)
    \/ \E c \in BagToSet(inflight) : PlayerRegisterInsert(c)

SpecUsers == Init /\ [][NextUsers]_vars

\* the cascade: session creation and deletion and attempt submission by
\* callers the middleware lets through
AdminTokens == { t \in Tokens : authMiddleware("admin", t) = 0 }

PlayerTokens == { t \in Tokens : authMiddleware("player", t) = 0 }

NextCascade ==
    \/ ~listening /\ Startup
    \/ PlayerLoginOld(<<" ", "a">>)
    \/ AdminLogin(<<"admin">>)
    \/ \E tok \in AdminTokens : CreateSessionAlloc(tok, StrNum(5))
    \/ \E c \in BagToSet(inflight) : CreateSessionInsert(c)
    \/ \E tok \in AdminTokens, idp \in IdParams : DeleteSessionOne(tok, idp)
    \/ \E c \in BagToSet(inflight) : DeleteSessionMany(c)
    \/ \E tok \in PlayerTokens, idp \in IdParams : SubmitAttempt(tok, idp, Num(N(1)))

SpecCascade == Init /\ [][NextCascade]_vars

\* the role-restricted handlers under every kind of token
NextRoles ==
    \/ ~listening /\ Startup
    \/ \E pw \in Passwords : PlayerLoginOld(pw)
    \/ \E pw \in Passwords : AdminLogin(pw)
    \/ \E tok \in Tokens, date \in DateInputs : CreateSessionAlloc(tok, date)
    \/ \E c \in BagToSet(inflight) : CreateSessionInsert(c)
    \/ \E tok \in Tokens, idp \in RoleIds : DeleteSessionOne(tok, idp)
    \/ \E c \in BagToSet(inflight) : DeleteSessionMany(c)
    \/ \E tok \in Tokens, idp \in RoleIds, rate \in RoleRates : SubmitAttempt(tok, idp, rate)

SpecRoles == Init /\ [][NextRoles]_vars

\* attempt submission and the two queries over the attempts
NextAttempts ==
    \/ Startup
    \/ \E pw \in Passwords : PlayerLoginOld(pw)
    \/ \E pw \in Passwords : AdminLogin(pw)
    \/ \E tok \in Tokens, idp \in IdParams, rate \in RateInputs : SubmitAttempt(tok, idp, rate)
    \/ \E tok \in Tokens, idp \in IdParams : GetLeaderboard(tok, idp)
    \/ \E tok \in Tokens, idp \in IdParams, name \in QueryNames : GetAttempts(tok, idp, name)

SpecAttempts == Init /\ [][NextAttempts]_vars

\* the leaderboard aggregation over any stored attempts
LbSessions == { 1, 3 }
LbNames == { "Antuan", "Maria", "bob" }
LbRates == { N(50), N(90) }
LbDocs == { AttemptDoc(sid, name, rate) : sid \in LbSessions, name \in LbNames, rate \in LbRates }

RECURSIVE SeqsUpTo(_, _)
SeqsUpTo(S, n) ==
    IF n = 0 THEN { <<>> }
    ELSE LET shorter == SeqsUpTo(S, n - 1)
         IN  shorter \cup { Append(q, x) : q \in shorter, x \in S }

\* the store after session 1 was deleted and attempts were submitted since
InitLeaderboard ==
    LET r == ensureSeedData(<<>>, <<>>, <<>>, <<>>)
    IN  /\ secretSet = TRUE
        /\ listening = TRUE
        /\ users = Append(r.users, UserDoc("bob", FALSE, <<"x">>))
        /\ sessions = Tail(r.sessions)
        /\ attempts \in SeqsUpTo(LbDocs, MaxLbAttempts)
        /\ counters = r.counters
        /\ issued = { [sub |-> "admin", role |-> "admin"] }
                        \cup { [sub |-> n, role |-> "player"] : n \in LbNames }
        /\ inflight = EmptyBag
        /\ last = Step("init", 0, NoToken, 0, "", <<>>)
        /\ allocated = r.ids
        /\ createdLog = r.ids
        /\ submits = Len(attempts)

NextLeaderboard == \E tok \in Tokens, idp \in IdParams : GetLeaderboard(tok, idp)

SpecLeaderboard == InitLeaderboard /\ [][NextLeaderboard]_vars

--------------------------------------------------------------------------
(* Properties *)

Answered(op, status) == last.op = op /\ last.status = status

NoDuplicates(q) == \A i, j \in 1..Len(q) : i # j => q[i] # q[j]

StrictlyIncreasing(q) == \A i, j \in 1..Len(q) : i < j => q[i] < q[j]

\* C1: the values getNextSessionId has returned, however its callers are
\* interleaved, are consecutive: the calls numbered i..j, made on a counter
\* that held i-1, return exactly the set {i, ..., j}, no value twice; the first
\* call on an absent counter returns 1, and the counter holds the number of calls.
C1_AllocatorConsecutive ==
    /\ CounterValue(counters) = Len(allocated)
    /\ allocated # <<>> => allocated[1] = 1
    /\ \A i \in 1..Len(allocated) : \A j \in i..Len(allocated) :
          /\ { allocated[m] : m \in i..j } = i..j
          /\ NoDuplicates(SubSeq(allocated, i, j))

\* two create-session requests hold an allocated id at the same time
C1_Witness ==
    /\ \E c, d \in Pending("create") : c.id # d.id
    /\ Len(allocated) = MaxSeq

\* C2: (with the secret configured) no two User documents have the same
\* userName; a register request with both fields for a stored userName
\* answers 409.
C2_UserNamesUnique ==
    /\ secretSet => \A i, j \in 1..Len(users) : i # j => users[i].userName # users[j].userName
    /\ (last.op = "registerFind" /\ last.had /\ last.status # 400) =>
          last.status = 409

\* C3 as stated: every session inserted has an id greater than the id of every
\* session inserted before it.
C3_InsertionOrderIncreasing == StrictlyIncreasing(createdLog)

\* C3, amended: ids are allocated in strictly increasing order, every session
\* inserted carries an allocated id that no session inserted before it carried
\* (deleted or not), and no two stored sessions share an id.
C3_IdsNeverReused ==
    /\ StrictlyIncreasing(allocated)
    /\ NoDuplicates(createdLog)
    /\ \A i \in 1..Len(createdLog) : \E k \in 1..Len(allocated) : allocated[k] = createdLog[i]
    /\ \A i, j \in 1..Len(sessions) : i # j => sessions[i].id # sessions[j].id

\* sessions were created concurrently and out of allocation order, and one of
\* the sessions created has been deleted
C3_Witness ==
    /\ Len(createdLog) = MaxSeq
    /\ Len(sessions) < Len(createdLog)
    /\ ~StrictlyIncreasing(createdLog)

\* C4: a run of ensureSeedData that directly follows another run changes no
\* collection: it inserts no user, no session and no attempt.
C4_SeedIdempotent ==
    [][(last.op = "seed" /\ last'.op = "seed") => store' = store]_vars

\* ensureSeedData has run twice in a row on a store whose sessions had all
\* been deleted before
C4_Witness ==
    /\ last.op = "seed"
    /\ last.had
    /\ CounterValue(counters) = MaxSeq

LeaderboardOf(id) == Leaderboard(attempts, id)

AttemptsOf(id) == { i \in 1..Len(attempts) : attempts[i].sessionId = id }

SessionsOf(id) == { i \in 1..Len(sessions) : sessions[i].id = id }

RateIsInteger(v) == v % Scale = 0

RateInRange(v) == N(1) <= v /\ v <= N(100)

\* C6: a submit-attempt request with a valid player token and a numeric id is
\* accepted exactly when the coerced rate is an integer in [1,100], and every
\* stored attempt has an integer rate in [1,100].
C6_RateValidation ==
    /\ (last.op = "submit" /\ last.status \in {201, 400} /\ IsFinite(NumberOf(last.idp))) =>
          (last.status = 201 <=>
              LET r == NumberOf(last.arg)
              IN  IsFinite(r) /\ RateIsInteger(r.v) /\ RateInRange(r.v))
    /\ \A i \in 1..Len(attempts) :
          RateIsInteger(attempts[i].rate) /\ RateInRange(attempts[i].rate)

UsersWithAttempts(id) == { attempts[i].userName : i \in AttemptsOf(id) }

\* C7: the leaderboard answered for s has one entry per user with an attempt
\* for s, the entry's rate is the user's highest rate for s, the entries are
\* in descending order of rate, equal rates in ascending order of userName,
\* and the ranks are 1..N.
C7_LeaderboardRanking ==
    Answered("leaderboard", 200) =>
        LET b == last.body
        IN  /\ { b[i].userName : i \in 1..Len(b) } = UsersWithAttempts(last.id)
            /\ Len(b) = Cardinality(UsersWithAttempts(last.id))
            /\ \A i \in 1..Len(b) :
                  /\ b[i].rank = i
                  /\ \E k \in AttemptsOf(last.id) :
                        attempts[k].userName = b[i].userName /\ attempts[k].rate = b[i].rate
                  /\ \A k \in AttemptsOf(last.id) :
                        attempts[k].userName = b[i].userName => attempts[k].rate <= b[i].rate
            /\ \A i \in 1..(Len(b) - 1) :
                  \/ b[i].rate > b[i + 1].rate
                  \/ /\ b[i].rate = b[i + 1].rate
                     /\ NameRank(b[i].userName) < NameRank(b[i + 1].userName)

\* a leaderboard with two users at the same rate, the first of them with a
\* lower attempt too
C7_Witness ==
    /\ Answered("leaderboard", 200)
    /\ Len(last.body) >= 2
    /\ last.body[1].rate = last.body[2].rate
    /\ \E k \in AttemptsOf(last.id) :
          attempts[k].userName = last.body[1].userName /\ attempts[k].rate < last.body[1].rate

\* C8: a list-attempts request with a valid token, a numeric id and a userName
\* answers 403 when a player asks for another user, and otherwise 200 with
\* exactly the stored attempts of that userName and session; a player is
\* handed own attempts only.
C8_AttemptsAccess ==
    (last.op = "attempts" /\ Verifies(last.tok) /\ IsFinite(NumberOf(last.idp))
        /\ last.name # "") =>
        LET b == last.body
            mine == { i \in AttemptsOf(last.id) : attempts[i].userName = last.name }
        IN  /\ (last.tok.role = "player" /\ last.tok.sub # last.name) =>
                  (last.status = 403 /\ b = <<>>)
            /\ (last.tok.role = "admin" \/ last.tok.sub = last.name) =>
                  /\ last.status = 200
                  /\ Len(b) = Cardinality(mine)
                  /\ \A i \in 1..Len(b) :
                        b[i].userName = last.name /\ b[i].sessionId = last.id
            /\ last.tok.role = "player" =>
                  \A i \in 1..Len(b) : b[i].userName = last.tok.sub

\* a player has been handed own attempts
C8_Witness ==
    /\ Answered("attempts", 200)
    /\ last.tok.role = "player"
    /\ Len(last.body) >= 2

RequiredRole(op) == IF op = "submit" THEN "player" ELSE "admin"

C9_Step ==
    /\ last'.op \in {"createAlloc", "deleteOne", "submit"} =>
          /\ ~Verifies(last'.tok) => last'.status = 401
          /\ (Verifies(last'.tok) /\ last'.tok.role # RequiredRole(last'.op)) =>
                last'.status = 403
          /\ last'.status \in {401, 403} => store' = store
    /\ sessions' # sessions =>
          Verifies(last'.tok) /\ last'.tok.role = "admin"
    /\ attempts' # attempts =>
          \/ last'.op = "delete" /\ Verifies(last'.tok) /\ last'.tok.role = "admin"
          \/ /\ last'.op = "submit"
             /\ Verifies(last'.tok)
             /\ last'.tok.role = "player"
             /\ attempts' = Append(attempts, attempts'[Len(attempts')])
             /\ attempts'[Len(attempts')].userName = last'.tok.sub

\* C9: once the process listens, a create-session, delete-session or
\* submit-attempt request without a valid token answers 401 and one whose valid
\* token has another role than the endpoint requires answers 403, both leaving
\* the collections and the counter unchanged; sessions change only in requests
\* with a valid admin token, and attempts are inserted only by requests with a
\* valid player token, under the token's subject.
C9_RoleEnforcement == [][listening => C9_Step]_vars

\* an admin token was refused on submit-attempt
C9_Witness ==
    /\ Answered("submit", 403)
    /\ last.tok.role = "admin"
    /\ Verifies(last.tok)

\* C10: without a configured secret, a login with a correct password answers
\* 200 and the insert step of player-register answers 201.
C10_NoSecretStillSucceeds ==
    ~secretSet =>
        /\ (last.op \in {"loginOld", "adminLogin"} /\ last.had /\ last.status # 400) =>
              last.status = 200
        /\ last.op = "register" => last.status = 201

====
